---------------------------- MODULE Spec2Model ----------------------------
(***************************************************************************)
(* A model of src/rank_order.py: the column normaliser (snake_case,        *)
(* standardize_df), the value bucketizers (categorize_numeric,             *)
(* categorize_text), the schema detector (find_rank_records) and the       *)
(* scorer (summarize_nas).                                                 *)
(*                                                                         *)
(* Representation.                                                         *)
(*   - A Python str is a sequence of one-character strings, so that        *)
(*     substring tests, strip(), lower() and the regular expressions of    *)
(*     snake_case are computed character by character.                     *)
(*   - A number is an integer count of tenths (76 is 7.6); the Python int  *)
(*     scale_max is a plain integer.  NaN is the model value for a missing *)
(*     cell (pd.isna).                                                     *)
(*   - A percentage is the exact fraction [num, den] of the float the code *)
(*     computes.                                                           *)
(***************************************************************************)
EXTENDS Integers, Sequences, FiniteSets, TLC

VARIABLES
    text_value, text_bucket,                     \* categorize_text
    num_value, num_scale, num_bucket,            \* categorize_numeric
    columns, new_columns, pass,                  \* standardize_df
    df, pc, numeric_candidates, records,         \* find_rank_records
    long_form, result,
    rank_records0, rank_records, summary         \* summarize_nas

vars == <<text_value, text_bucket, num_value, num_scale, num_bucket,
          columns, new_columns, pass,
          df, pc, numeric_candidates, records, long_form, result,
          rank_records0, rank_records, summary>>

textVars == <<text_value, text_bucket>>
numVars == <<num_value, num_scale, num_bucket>>
normVars == <<columns, new_columns, pass>>
detectVars == <<df, pc, numeric_candidates, records, long_form, result>>
scoreVars == <<rank_records0, rank_records, summary>>

\* The value of a variable that the specification at hand does not use.
Idle == "idle"

IdleText == text_value = Idle /\ text_bucket = Idle
IdleNumeric == num_value = Idle /\ num_scale = Idle /\ num_bucket = Idle
IdleNormalize == columns = Idle /\ new_columns = Idle /\ pass = Idle
IdleDetect ==
    /\ df = Idle /\ pc = Idle /\ numeric_candidates = Idle
    /\ records = Idle /\ long_form = Idle /\ result = Idle
IdleScore == rank_records0 = Idle /\ rank_records = Idle /\ summary = Idle

\* The three buckets of an observation.
Buckets == {"most", "neutral", "least"}

\* A cell of a table, or the value of a variable, is one of
\*   NaN                a missing value (pandas NaN / pd.NA)
\*   Num(v)             a number, v tenths
\*   Str(s)             a str, s its characters
NaN == [k |-> "nan"]
Num(v) == [k |-> "num", v |-> v]
Str(s) == [k |-> "str", s |-> s]

\* pd.isna(value)
IsNa(value) == value.k = "nan"

\* Python None as the bucket of a response that is not classified.
None == "none"

\* A bucket that has not been computed yet.
Pending == "pending"

\* A structured result that has not been computed yet, and one that has.
NotYet == [k |-> "pending"]
Returned(value) == [k |-> "returned", v |-> value]
IsReturned(r) == r.k = "returned"

-----------------------------------------------------------------------------
(* Strings *)

\* The characters of the model in code-point order (Python compares str by
\* code point; groupby sorts its keys with that order).
CodeOrder ==
    <<" ", "-", ".", "/", "0", "1", "2", "3", "4", "5", "6", "7", "8", "9",
      "A", "B", "C", "F", "L", "M", "N", "_",
      "a", "b", "c", "d", "e", "f", "g", "h", "i", "j", "k", "l", "m",
      "n", "o", "p", "q", "r", "s", "t", "u", "v", "w", "x", "y", "z">>

Ord(c) == CHOOSE i \in 1..Len(CodeOrder) : CodeOrder[i] = c

Digits == <<"0", "1", "2", "3", "4", "5", "6", "7", "8", "9">>

IsDigit(c) == \E i \in 1..Len(Digits) : Digits[i] = c

UpperCase == <<"A", "B", "C", "F", "L", "M", "N">>
LowerCase == <<"a", "b", "c", "f", "l", "m", "n">>

\* str.lower() on one character.
LowerChar(c) ==
    IF \E i \in 1..Len(UpperCase) : UpperCase[i] = c
    THEN LowerCase[CHOOSE i \in 1..Len(UpperCase) : UpperCase[i] = c]
    ELSE c

\* str.lower()
Lower(s) == [i \in 1..Len(s) |-> LowerChar(s[i])]

\* s with every leading and trailing character satisfying drop removed:
\* str.strip() with drop = whitespace, str.strip("_") with drop = "_".
StripChars(s, dropset) ==
    LET keep == {i \in 1..Len(s) : s[i] \notin dropset}
    IN  IF keep = {} THEN <<>>
        ELSE LET lo == CHOOSE i \in keep : \A j \in keep : i <= j
                 hi == CHOOSE i \in keep : \A j \in keep : j <= i
             IN  SubSeq(s, lo, hi)

\* str.strip()
Strip(s) == StripChars(s, {" "})

\* key in text (substring test)
Contains(key, text) ==
    \E i \in 0..(Len(text) - Len(key)) : SubSeq(text, i + 1, i + Len(key)) = key

\* text.startswith(key)
StartsWith(text, key) ==
    Len(key) <= Len(text) /\ SubSeq(text, 1, Len(key)) = key

\* s < t in Python's str order.
StrLess(s, t) ==
    \E i \in 1..(Len(t)) :
        /\ \A j \in 1..(i - 1) : j <= Len(s) /\ s[j] = t[j]
        /\ \/ i = Len(s) + 1
           \/ i <= Len(s) /\ Ord(s[i]) < Ord(t[i])

-----------------------------------------------------------------------------
(* Numbers: tenths *)

\* The number n (an int) as tenths.
FromInt(n) == n * 10

\* Python int(x) for a float x: truncation toward zero.
Truncate(v) == IF v >= 0 THEN v \div 10 ELSE -((-v) \div 10)

\* Python round(x): to the nearest integer, a tie to the even one.
Round(v) ==
    LET fl == v \div 10
        r == v % 10
    IN  IF r < 5 THEN fl
        ELSE IF r > 5 THEN fl + 1
        ELSE IF fl % 2 = 0 THEN fl ELSE fl + 1

\* str(i) for an int i >= 0.
RECURSIVE Decimal(_)
Decimal(i) ==
    IF i < 10 THEN <<Digits[i + 1]>>
    ELSE Decimal(i \div 10) \o <<Digits[(i % 10) + 1]>>

\* low <= value <= high, for int low and high (Series.between, and the
\* comparison of categorize_numeric).
Between(v, low, high) == FromInt(low) <= v /\ v <= FromInt(high)

-----------------------------------------------------------------------------
(* Value bucketizer *)

FORCED_SCALE_LABELS ==
    << [label |-> "most", low |-> 1, high |-> 3],
       [label |-> "neutral", low |-> 4, high |-> 5],
       [label |-> "least", low |-> 6, high |-> 8] >>

LIKERT_LABELS ==
    << [label |-> "most", low |-> 4, high |-> 5],
       [label |-> "neutral", low |-> 3, high |-> 3],
       [label |-> "least", low |-> 1, high |-> 2] >>

\* for label, (low, high) in bins.items(): the first range holding value.
FirstBin(bins, value) ==
    LET hits == {i \in 1..Len(bins) : Between(value.v, bins[i].low, bins[i].high)}
    IN  IF hits = {} THEN None
        ELSE bins[CHOOSE i \in hits : \A j \in hits : i <= j].label

\* A plausible slip: the forced-rank table for every scale of 5 or more.
CategorizeNumericAnyScale(value, scale_max) ==
    IF IsNa(value) THEN None
    ELSE IF scale_max >= 8 THEN FirstBin(FORCED_SCALE_LABELS, value)
    ELSE IF scale_max >= 5 THEN FirstBin(LIKERT_LABELS, value)
    ELSE None

categorize_numeric(value, scale_max) ==
    IF IsNa(value) THEN None
    ELSE IF scale_max >= 8 THEN FirstBin(FORCED_SCALE_LABELS, value)
    ELSE IF scale_max = 5 THEN FirstBin(LIKERT_LABELS, value)
    ELSE None

\* The keys of TEXT_BUCKET_MAP in the dict's insertion order.
TEXT_BUCKET_MAP ==
    << [key |-> <<"m","o","s","t"," ","b","e","n","e","f","i","c","i","a","l">>,
        bucket |-> "most"],
       [key |-> <<"m","o","s","t">>, bucket |-> "most"],
       [key |-> <<"b","e","n","e","f","i","c","i","a","l">>, bucket |-> "most"],
       [key |-> <<"n","e","u","t","r","a","l">>, bucket |-> "neutral"],
       [key |-> <<"n","e","i","t","h","e","r">>, bucket |-> "neutral"],
       [key |-> <<"l","e","a","s","t"," ","b","e","n","e","f","i","c","i","a","l">>,
        bucket |-> "least"],
       [key |-> <<"l","e","a","s","t">>, bucket |-> "least"] >>

DidNotTake == <<"d","i","d"," ","n","o","t"," ","t","a","k","e">>
NotApplicable == <<"n","/","a">>

\* str(x) for a float x of v tenths: "7.6", "-0.5".
FormatNum(v) ==
    LET a == IF v >= 0 THEN v ELSE -v
        digits == Decimal(a \div 10) \o <<".">> \o Decimal(a % 10)
    IN  IF v >= 0 THEN digits ELSE <<"-">> \o digits

\* str(value) of a cell that is not missing.
ToStr(value) ==
    IF value.k = "str" THEN value.s ELSE FormatNum(value.v)

categorize_text(value) ==
    IF IsNa(value) THEN None
    ELSE LET text == Lower(Strip(ToStr(value)))
             hits == {i \in 1..Len(TEXT_BUCKET_MAP) :
                          Contains(TEXT_BUCKET_MAP[i].key, text)}
         IN  IF text = <<>> THEN None
             ELSE IF Contains(DidNotTake, text) \/ text = NotApplicable THEN None
             ELSE IF hits = {} THEN None
             ELSE TEXT_BUCKET_MAP[CHOOSE i \in hits : \A j \in hits : i <= j].bucket

-----------------------------------------------------------------------------
(* categorize_text on one response *)

\* The responses are the concatenations of at most MaxFragments fragments.
MaxFragments == 3

Fragments ==
    { <<"L","e","a","s","t">>,
      <<"l","e","a","s","t">>,
      <<"M","o","s","t">>,
      <<" ">>,
      <<"b","e","n","e","f","i","c","i","a","l">>,
      <<"n","e","u","t","r","a","l">>,
      <<"n","e","i","t","h","e","r">>,
      <<"d","i","d"," ","n","o","t"," ","t","a","k","e">>,
      <<"n","/","a">>,
      <<"x">> }

RECURSIVE Concats(_)
Concats(n) ==
    IF n = 0 THEN {<<>>}
    ELSE LET shorter == Concats(n - 1)
         IN  shorter \cup {s \o f : s \in shorter, f \in Fragments}

Responses == {NaN, Num(FromInt(5))} \cup {Str(s) : s \in Concats(MaxFragments)}

InitText ==
    /\ text_value \in Responses
    /\ text_bucket = Pending
    /\ IdleNumeric
    /\ IdleNormalize
    /\ IdleDetect
    /\ IdleScore

CategorizeText ==
    /\ text_bucket = Pending
    /\ text_bucket' = categorize_text(text_value)
    /\ UNCHANGED <<text_value, numVars, normVars, detectVars, scoreVars>>

NextText == CategorizeText

SpecText == InitText /\ [][NextText]_vars

LeastBeneficial ==
    <<"l","e","a","s","t"," ","b","e","n","e","f","i","c","i","a","l">>

\* The lowercased trimmed text of a response that is not missing.
TextOf(value) == Lower(Strip(ToStr(value)))

\* C1: a response that is not missing, is not an explicit non-response and
\* whose lowercased trimmed text contains "least beneficial" is put in the
\* bucket least, never in most.
C1_LeastBeneficialIsLeast ==
    ( /\ text_bucket # Pending
      /\ ~IsNa(text_value)
      /\ Contains(LeastBeneficial, TextOf(text_value))
      /\ ~Contains(DidNotTake, TextOf(text_value))
      /\ TextOf(text_value) # NotApplicable )
    => text_bucket = "least"

-----------------------------------------------------------------------------
(* categorize_numeric on one value and one scale *)

\* Values are the tenths from -1.0 to MaxValue.9, scales the ints from -1
\* to MaxScale.
MaxValue == 9
MaxScale == 10

NumericValues == {NaN} \cup {Num(v) : v \in (-10)..(FromInt(MaxValue) + 9)}

InitNumeric ==
    /\ num_value \in NumericValues
    /\ num_scale \in (-1)..MaxScale
    /\ num_bucket = Pending
    /\ IdleText
    /\ IdleNormalize
    /\ IdleDetect
    /\ IdleScore

CategorizeNumeric ==
    /\ num_bucket = Pending
    /\ num_bucket' = categorize_numeric(num_value, num_scale)
    /\ UNCHANGED <<num_value, num_scale, textVars, normVars, detectVars, scoreVars>>

NextNumeric == CategorizeNumeric

SpecNumeric == InitNumeric /\ [][NextNumeric]_vars

\* The bucket the two range tables give a value of v tenths on a scale.
ExpectedBucket(v, scale) ==
    IF scale >= 8 THEN
        IF 10 <= v /\ v <= 30 THEN "most"
        ELSE IF 40 <= v /\ v <= 50 THEN "neutral"
        ELSE IF 60 <= v /\ v <= 80 THEN "least"
        ELSE None
    ELSE IF scale = 5 THEN
        IF 40 <= v /\ v <= 50 THEN "most"
        ELSE IF v = 30 THEN "neutral"
        ELSE IF 10 <= v /\ v <= 20 THEN "least"
        ELSE None
    ELSE None

\* C4: a missing value gives none; on a scale of 8 or more [1,3] is most,
\* [4,5] neutral and [6,8] least; on the scale 5 [4,5] is most, 3 neutral and
\* [1,2] least; every other scale, and every value outside the ranges, gives
\* none.
C4_NumericBuckets ==
    num_bucket # Pending =>
        num_bucket = IF IsNa(num_value) THEN None
                     ELSE ExpectedBucket(num_value.v, num_scale)

\* A value the scale 7 leaves unclassified although both tables hold it, and
\* 9 on the scale 8, outside every range.
C4_Witness ==
    /\ num_bucket = None
    /\ \/ num_scale = 7 /\ num_value = Num(FromInt(4))
       \/ num_scale = 8 /\ num_value = Num(FromInt(9))

-----------------------------------------------------------------------------
(* Column normaliser *)

LowerLetters ==
    {"a", "b", "c", "d", "e", "f", "g", "h", "i", "j", "k", "l", "m",
     "n", "o", "p", "q", "r", "s", "t", "u", "v", "w", "x", "y", "z"}

\* The characters [a-z0-9] matches.
Alnum == LowerLetters \cup {Digits[i] : i \in 1..Len(Digits)}

\* The characters [^a-z0-9] matches.
NonAlnum == {CodeOrder[i] : i \in 1..Len(CodeOrder)} \ Alnum

\* s without its longest prefix of characters of class.
RECURSIVE DropRun(_, _)
DropRun(s, class) ==
    IF s # <<>> /\ Head(s) \in class THEN DropRun(Tail(s), class) ELSE s

\* re.sub(r"[class]+", "_", s): every maximal run of characters of class
\* replaced by one "_".
RECURSIVE SubRuns(_, _)
SubRuns(s, class) ==
    IF s = <<>> THEN <<>>
    ELSE IF Head(s) \in class THEN <<"_">> \o SubRuns(DropRun(s, class), class)
    ELSE <<Head(s)>> \o SubRuns(Tail(s), class)

Unnamed == <<"u","n","n","a","m","e","d">>

snake_case(value) ==
    LET lowered == Lower(Strip(value))
        replaced == SubRuns(lowered, NonAlnum)
        collapsed == StripChars(SubRuns(replaced, {"_"}), {"_"})
    IN  IF collapsed = <<>> THEN Unnamed ELSE collapsed

\* f"{base}_{i}"
Suffixed(base, i) == base \o <<"_">> \o Decimal(i)

\* name = base; i = 2; while name in used: name = f"{base}_{i}"; i += 1
\* The loop ends at the latest with i = Cardinality(usedNames) + 2.
FreeName(base, usedNames) ==
    IF base \notin usedNames THEN base
    ELSE LET free == {i \in 2..(Cardinality(usedNames) + 2) :
                          Suffixed(base, i) \notin usedNames}
         IN  Suffixed(base, CHOOSE i \in free : \A j \in free : i <= j)

\* The dict d with d[key] = value.
DictSet(d, key, value) ==
    [k \in DOMAIN d \cup {key} |-> IF k = key THEN value ELSE d[k]]

\* The loop of standardize_df from column i on: the dict renamed it ends with.
RECURSIVE RenameLoop(_, _, _, _)
RenameLoop(cols, i, usedNames, renamedDict) ==
    IF i > Len(cols) THEN renamedDict
    ELSE LET name == FreeName(snake_case(cols[i]), usedNames)
         IN  RenameLoop(cols, i + 1, usedNames \cup {name},
                        DictSet(renamedDict, cols[i], name))

\* The column labels of df.rename(columns=renamed): every label looked up in
\* the dict, which holds one entry per distinct raw label.
standardize_df(cols) ==
    LET renamedDict == RenameLoop(cols, 1, {}, <<>>)
    IN  [i \in 1..Len(cols) |-> renamedDict[cols[i]]]

\* A table has from 1 to MaxCols columns, named with the labels of RawNames;
\* the labels are normalised MaxPasses times, each pass on the labels the pass
\* before it returned.
MaxCols == 3
MaxPasses == 2

RawNames ==
    { <<"A">>, <<"a">>, <<" ", "a", " ">>, <<"a", "_", "2">>,
      <<"A", " ", "2">>, <<"a", "-", "/", "B">>, <<"_", "-">>, <<>> }

RECURSIVE SeqsUpTo(_, _)
SeqsUpTo(S, n) ==
    IF n = 0 THEN {<<>>}
    ELSE LET shorter == SeqsUpTo(S, n - 1)
         IN  shorter \cup {Append(s, x) : s \in shorter, x \in S}

InitNormalize ==
    /\ columns \in SeqsUpTo(RawNames, MaxCols) \ {<<>>}
    /\ new_columns = NotYet
    /\ pass = 1
    /\ IdleText
    /\ IdleNumeric
    /\ IdleDetect
    /\ IdleScore

StandardizeDf ==
    /\ ~IsReturned(new_columns)
    /\ new_columns' = Returned(standardize_df(columns))
    /\ UNCHANGED <<columns, pass, textVars, numVars, detectVars, scoreVars>>

\* normalize(normalize(t)): the labels of the normalised table are normalised.
StandardizeAgain ==
    /\ IsReturned(new_columns)
    /\ pass < MaxPasses
    /\ columns' = new_columns.v
    /\ new_columns' = NotYet
    /\ pass' = pass + 1
    /\ UNCHANGED <<textVars, numVars, detectVars, scoreVars>>

NextNormalize == StandardizeDf \/ StandardizeAgain

SpecNormalize == InitNormalize /\ [][NextNormalize]_vars

\* C2: the identifiers standardize_df gives any sequence of raw names,
\* repeated raw names included, are pairwise distinct and never empty, and the
\* i-th identifier is the one of the i-th raw name (its snake_case form, with a
\* suffix when that form is taken).
C2_UniqueNonEmptyOrdered ==
    (pass = 1 /\ IsReturned(new_columns)) =>
        LET out == new_columns.v
        IN  /\ Len(out) = Len(columns)
            /\ \A i \in 1..Len(out) :
                   /\ out[i] # <<>>
                   /\ StartsWith(out[i], snake_case(columns[i]))
            /\ \A i, j \in 1..Len(out) : i # j => out[i] # out[j]

\* C9: normalising the identifiers of a normalised table returns the same
\* identifiers in the same order.
C9_Idempotent ==
    (pass > 1 /\ IsReturned(new_columns)) => new_columns.v = columns

-----------------------------------------------------------------------------
(* Aggregator / scorer *)

\* The elements of a set of str as a sequence in ascending str order.
RECURSIVE SortedStrs(_)
SortedStrs(S) ==
    IF S = {} THEN <<>>
    ELSE LET least == CHOOSE x \in S : \A y \in S \ {x} : StrLess(x, y)
         IN  <<least>> \o SortedStrs(S \ {least})

\* The courses of the observations in the order of their first appearance
\* (what groupby(sort=False) would iterate).
RECURSIVE FirstSeen(_, _)
FirstSeen(recs, seen) ==
    IF recs = <<>> THEN <<>>
    ELSE IF Head(recs).course \in seen THEN FirstSeen(Tail(recs), seen)
    ELSE <<Head(recs).course>> \o FirstSeen(Tail(recs), seen \cup {Head(recs).course})

\* A plausible slip: groups kept in the order the courses first appear.
GroupKeysUnsorted(recs) == FirstSeen(recs, {})

\* rank_records.groupby("course", dropna=True): the group keys, sorted.
GroupKeys(recs) == SortedStrs({recs[i].course : i \in 1..Len(recs)})

\* grouped["bucket"].value_counts().unstack(fill_value=0)[bucket] of a course.
Count(recs, course, bucket) ==
    Cardinality({i \in 1..Len(recs) :
                     recs[i].course = course /\ recs[i].bucket = bucket})

\* Fractions stand for the floats of the summary.
Frac(n, d) == [num |-> n, den |-> d]
FracSub(a, b) == Frac(a.num * b.den - b.num * a.den, a.den * b.den)
FracLess(a, b) == a.num * b.den < b.num * a.den
FracEq(a, b) == a.num * b.den = b.num * a.den

\* n / total * 100
Pct(n, total) == Frac(n * 100, total)

\* A plausible slip: n_total without the neutral responses.
CountedRowNoNeutral(recs, course) ==
    LET n_most == Count(recs, course, "most")
        n_neutral == Count(recs, course, "neutral")
        n_least == Count(recs, course, "least")
    IN  [course |-> course, n_most |-> n_most, n_neutral |-> n_neutral,
         n_least |-> n_least, n_total |-> n_most + n_least]

\* One row of the unstacked counts with its n_total.
CountedRow(recs, course) ==
    LET n_most == Count(recs, course, "most")
        n_neutral == Count(recs, course, "neutral")
        n_least == Count(recs, course, "least")
    IN  [course |-> course, n_most |-> n_most, n_neutral |-> n_neutral,
         n_least |-> n_least, n_total |-> n_most + n_neutral + n_least]

\* The row with pct_most, pct_least and nas.
ScoredRow(row) ==
    LET pct_most == Pct(row.n_most, row.n_total)
        pct_least == Pct(row.n_least, row.n_total)
    IN  [course |-> row.course, n_total |-> row.n_total, n_most |-> row.n_most,
         n_neutral |-> row.n_neutral, n_least |-> row.n_least,
         pct_most |-> pct_most, pct_least |-> pct_least,
         nas |-> FracSub(pct_most, pct_least)]

\* A plausible slip: the sort without its last key.
SortsBeforeNoTotal(a, b) ==
    \/ FracLess(b.nas, a.nas)
    \/ FracEq(a.nas, b.nas) /\ FracLess(b.pct_most, a.pct_most)

\* a sorts strictly before b: by=["nas", "pct_most", "n_total"], all
\* descending.
SortsBefore(a, b) ==
    \/ FracLess(b.nas, a.nas)
    \/ FracEq(a.nas, b.nas) /\ FracLess(b.pct_most, a.pct_most)
    \/ FracEq(a.nas, b.nas) /\ FracEq(a.pct_most, b.pct_most)
           /\ a.n_total > b.n_total

\* row put into the sorted rows after every row that does not sort after it.
InsertRow(sorted, row) ==
    LET later == {i \in 1..Len(sorted) : SortsBefore(row, sorted[i])}
        at == IF later = {} THEN Len(sorted) + 1
              ELSE CHOOSE i \in later : \A j \in later : i <= j
    IN  SubSeq(sorted, 1, at - 1) \o <<row>> \o SubSeq(sorted, at, Len(sorted))

\* DataFrame.sort_values on several keys: a stable sort (rows equal on the
\* whole key keep their order).
RECURSIVE SortValues(_, _)
SortValues(rows, sorted) ==
    IF rows = <<>> THEN sorted
    ELSE SortValues(Tail(rows), InsertRow(sorted, Head(rows)))

\* summary[summary["n_total"] > 0]
RECURSIVE KeepPositive(_)
KeepPositive(rows) ==
    IF rows = <<>> THEN <<>>
    ELSE IF Head(rows).n_total > 0 THEN <<Head(rows)>> \o KeepPositive(Tail(rows))
    ELSE KeepPositive(Tail(rows))

summarize_nas(recs) ==
    LET keys == GroupKeys(recs)
        counted == [i \in 1..Len(keys) |-> CountedRow(recs, keys[i])]
        kept == KeepPositive(counted)
        scored == [i \in 1..Len(kept) |-> ScoredRow(kept[i])]
        sorted == SortValues(scored, <<>>)
    IN  [i \in 1..Len(sorted) |->
            [rank |-> i, course |-> sorted[i].course,
             n_total |-> sorted[i].n_total, n_most |-> sorted[i].n_most,
             n_neutral |-> sorted[i].n_neutral, n_least |-> sorted[i].n_least,
             pct_most |-> sorted[i].pct_most, pct_least |-> sorted[i].pct_least,
             nas |-> sorted[i].nas]]

\* The observation lists hold from 1 to MaxObs observations of the courses
\* of CourseNames.  rank_records0 lists them course by course; rank_records is
\* any reordering of it, reached by exchanging neighbours.
MaxObs == 4

CourseNames == << <<"a","c","c">>, <<"a","c","c","2">>, <<"f","i","n">> >>

ObsKinds ==
    << "most", "neutral", "least" >>

\* The observations in a fixed order: course by course, bucket by bucket.
ObsPalette ==
    [k \in 1..(Len(CourseNames) * 3) |->
        [course |-> CourseNames[((k - 1) \div 3) + 1],
         bucket |-> ObsKinds[((k - 1) % 3) + 1]]]

\* The non-decreasing sequences of n indices from lo to hi.
RECURSIVE Ascending(_, _, _)
Ascending(n, lo, hi) ==
    IF n = 0 THEN {<<>>}
    ELSE UNION {{<<k>> \o t : t \in Ascending(n - 1, k, hi)} : k \in lo..hi}

ListedObs ==
    UNION {{[i \in 1..n |-> ObsPalette[ix[i]]] :
                ix \in Ascending(n, 1, Len(ObsPalette))} : n \in 1..MaxObs}

InitScore ==
    /\ rank_records0 \in ListedObs
    /\ rank_records = rank_records0
    /\ summary = NotYet
    /\ IdleText
    /\ IdleNumeric
    /\ IdleNormalize
    /\ IdleDetect

\* The same observations in another row order.
Reorder ==
    /\ ~IsReturned(summary)
    /\ \E i \in 1..(Len(rank_records) - 1) :
           /\ rank_records[i] # rank_records[i + 1]
           /\ rank_records' = [rank_records EXCEPT ![i] = rank_records[i + 1],
                                                   ![i + 1] = rank_records[i]]
    /\ UNCHANGED <<rank_records0, summary, textVars, numVars, normVars, detectVars>>

SummarizeNas ==
    /\ ~IsReturned(summary)
    /\ summary' = Returned(summarize_nas(rank_records))
    /\ UNCHANGED <<rank_records0, rank_records, textVars, numVars, normVars,
                   detectVars>>

NextScore == Reorder \/ SummarizeNas

SpecScore == InitScore /\ [][NextScore]_vars

\* The observations of a course with a bucket, counted from rank_records.
Observed(course, bucket) ==
    Cardinality({i \in 1..Len(rank_records) :
                     /\ rank_records[i].course = course
                     /\ rank_records[i].bucket = bucket})

\* C6: every row of the summary counts the observations of its course, with
\* n_total = n_most + n_neutral + n_least > 0, pct_most = 100 n_most / n_total
\* and pct_least = 100 n_least / n_total in [0,100], and
\* nas = pct_most - pct_least in [-100,100]; no row is a course without
\* observations.
C6_RowArithmetic ==
    IsReturned(summary) =>
        \A i \in 1..Len(summary.v) :
            LET r == summary.v[i]
            IN  /\ r.n_most = Observed(r.course, "most")
                /\ r.n_neutral = Observed(r.course, "neutral")
                /\ r.n_least = Observed(r.course, "least")
                /\ r.n_total = r.n_most + r.n_neutral + r.n_least
                /\ r.n_total > 0
                /\ r.pct_most.den > 0 /\ r.pct_least.den > 0 /\ r.nas.den > 0
                /\ r.pct_most.num * r.n_total = 100 * r.n_most * r.pct_most.den
                /\ r.pct_least.num * r.n_total = 100 * r.n_least * r.pct_least.den
                /\ 0 <= r.pct_most.num /\ r.pct_most.num <= 100 * r.pct_most.den
                /\ 0 <= r.pct_least.num /\ r.pct_least.num <= 100 * r.pct_least.den
                /\ r.nas.num * r.n_total = 100 * (r.n_most - r.n_least) * r.nas.den
                /\ -100 * r.nas.den <= r.nas.num /\ r.nas.num <= 100 * r.nas.den

\* A course with 2 most, 1 neutral and 1 least of 4: pct_most = 50,
\* pct_least = 25, nas = 25.
C6_Witness ==
    /\ IsReturned(summary)
    /\ \E i \in 1..Len(summary.v) :
           LET r == summary.v[i]
           IN  /\ r.n_most = 2 /\ r.n_neutral = 1 /\ r.n_least = 1 /\ r.n_total = 4
               /\ FracEq(r.pct_most, Frac(50, 1))
               /\ FracEq(r.pct_least, Frac(25, 1))
               /\ FracEq(r.nas, Frac(25, 1))

\* a's sort key (nas, pct_most, n_total) is at least b's, lexicographically.
KeyAtLeast(a, b) ==
    \/ FracLess(b.nas, a.nas)
    \/ FracEq(a.nas, b.nas) /\ FracLess(b.pct_most, a.pct_most)
    \/ FracEq(a.nas, b.nas) /\ FracEq(a.pct_most, b.pct_most)
           /\ a.n_total >= b.n_total

\* C7: the rows are in descending order of (nas, pct_most, n_total) and
\* rank is the 1-based position, so the ranks are 1..N.
C7_SortedAndRanked ==
    IsReturned(summary) =>
        /\ \A i \in 1..Len(summary.v) : summary.v[i].rank = i
        /\ \A i, j \in 1..Len(summary.v) :
               i < j => KeyAtLeast(summary.v[i], summary.v[j])

\* Two courses equal on nas and pct_most, the one with the larger n_total
\* ranked first although its name sorts after the other's.
C7_Witness ==
    /\ IsReturned(summary)
    /\ \E i, j \in 1..Len(summary.v) :
           LET a == summary.v[i]
               b == summary.v[j]
           IN  /\ i < j
               /\ FracEq(a.nas, b.nas) /\ FracEq(a.pct_most, b.pct_most)
               /\ a.n_total > b.n_total
               /\ StrLess(b.course, a.course)

\* C8: the summary of a reordered observation list is the summary of the
\* list itself, row order and ranks of tied courses included.
C8_OrderIndependent ==
    IsReturned(summary) => summary.v = summarize_nas(rank_records0)

\* A reordered list in which the course that appears first sorts last, its
\* rows tied on the whole key.
C8_Witness ==
    /\ IsReturned(summary)
    /\ rank_records # rank_records0
    /\ Len(summary.v) >= 2
    /\ StrLess(rank_records[Len(rank_records)].course, rank_records[1].course)
    /\ \A i, j \in 1..Len(summary.v) :
           /\ FracEq(summary.v[i].nas, summary.v[j].nas)
           /\ FracEq(summary.v[i].pct_most, summary.v[j].pct_most)
           /\ summary.v[i].n_total = summary.v[j].n_total

-----------------------------------------------------------------------------
(* Schema detector *)

\* A table is [names |-> the column labels, cols |-> the columns], a column
\* the sequence of its cells; every column has the same number of rows.

BLOCK_COLUMN_HINTS ==
    << <<"r","a","n","k">>,
       <<"b","e","n","e","f","i","c","i","a","l">>,
       <<"c","o","u","r","s","e">>,
       <<"p","r","o","g","r","a","m">>,
       <<"a","c","c">>,
       <<"q","8","4">>,
       <<"p","r","e","p","a","r","a","t","i","o","n">> >>

looks_like_course_col(name) ==
    \E i \in 1..Len(BLOCK_COLUMN_HINTS) :
        Contains(BLOCK_COLUMN_HINTS[i], Lower(name))

\* The int a str of decimal digits writes.
RECURSIVE DigitsValue(_)
DigitsValue(s) ==
    IF s = <<>> THEN 0
    ELSE 10 * DigitsValue(SubSeq(s, 1, Len(s) - 1))
         + (CHOOSE d \in 0..9 : Digits[d + 1] = s[Len(s)])

\* pd.to_numeric(errors="coerce") on one cell: a number is kept, a str of
\* decimal digits is parsed, and any other str of the model (none of them a
\* numeric literal) is coerced to NaN.
ToNumeric(cell) ==
    IF cell.k = "num" THEN cell
    ELSE IF cell.k = "str" /\ cell.s # <<>> /\ \A i \in 1..Len(cell.s) : IsDigit(cell.s[i])
    THEN Num(FromInt(DigitsValue(cell.s)))
    ELSE NaN

\* pd.to_numeric(df[col], errors="coerce")
Coerce(column) == [i \in 1..Len(column) |-> ToNumeric(column[i])]

\* series.dropna()
DropNa(series) == SelectSeq(series, LAMBDA c : ~IsNa(c))

\* non_na.between(1, 8).mean() >= 0.7
MostlyInRange(non_na) ==
    10 * Cardinality({i \in 1..Len(non_na) : Between(non_na[i].v, 1, 8)})
        >= 7 * Len(non_na)

\* non_na.nunique()
NUnique(non_na) == Cardinality({non_na[i].v : i \in 1..Len(non_na)})

\* non_na.max()
MaxOf(non_na) ==
    CHOOSE v \in {non_na[i].v : i \in 1..Len(non_na)} :
        \A i \in 1..Len(non_na) : non_na[i].v <= v

\* A plausible slip: the scale rounded to the nearest int.
ScaleMaxRounded(non_na) == Round(MaxOf(non_na))

\* int(non_na.max())
ScaleMax(non_na) == Truncate(MaxOf(non_na))

\* The elements of a finite set of ints in ascending order.
RECURSIVE AscendingSeq(_)
AscendingSeq(S) ==
    IF S = {} THEN <<>>
    ELSE LET least == CHOOSE x \in S : \A y \in S : x <= y
         IN  <<least>> \o AscendingSeq(S \ {least})

\* The sequences of a sequence of sequences, one after the other.
RECURSIVE Flatten(_)
Flatten(seqs) ==
    IF seqs = <<>> THEN <<>> ELSE Head(seqs) \o Flatten(Tail(seqs))

NCols(table) == Len(table.names)
NRowsOf(table) == Len(table.cols[1])

\* Case 1: the columns that pass the rank/rating test, in column order, each
\* with its scale.
NumericCandidates(table) ==
    LET ok == {c \in 1..NCols(table) :
                   LET non_na == DropNa(Coerce(table.cols[c]))
                   IN  /\ non_na # <<>>
                       /\ MostlyInRange(non_na)
                       /\ NUnique(non_na) >= 3}
        cands == AscendingSeq(ok)
    IN  [k \in 1..Len(cands) |->
            [col |-> cands[k],
             scale_max |-> ScaleMax(DropNa(Coerce(table.cols[cands[k]])))]]

\* filtered_candidates, which replace the candidates when there are any.
FilteredCandidates(table, cands) ==
    LET filtered == SelectSeq(cands,
                        LAMBDA cand : looks_like_course_col(table.names[cand.col]))
    IN  IF filtered # <<>> THEN filtered ELSE cands

\* for value in series: the records of the values categorize_numeric buckets.
SeriesRecords(series, course, scale_max) ==
    LET bucket == [i \in 1..Len(series) |-> categorize_numeric(series[i], scale_max)]
        kept == AscendingSeq({i \in 1..Len(series) : bucket[i] # None})
    IN  [k \in 1..Len(kept) |-> [course |-> course, bucket |-> bucket[kept[k]]]]

\* The records of Case 1 for the chosen candidates.
Case1Records(table, cands) ==
    Flatten([k \in 1..Len(cands) |->
                SeriesRecords(Coerce(table.cols[cands[k].col]),
                              table.names[cands[k].col], cands[k].scale_max)])

CourseKey == <<"c","o","u","r","s","e">>
ProgramKey == <<"p","r","o","g","r","a","m">>
RankKey == <<"r","a","n","k">>
RatingKey == <<"r","a","t","i","n","g">>
BeneficialKey == <<"b","e","n","e","f","i","c","i","a","l">>
PreferenceKey == <<"p","r","e","f","e","r","e","n","c","e">>

\* course_cols and rank_cols of Case 2, in column order.
CourseCols(table) ==
    AscendingSeq({c \in 1..NCols(table) :
        Contains(CourseKey, table.names[c]) \/ Contains(ProgramKey, table.names[c])})

RankCols(table) ==
    AscendingSeq({c \in 1..NCols(table) :
        \/ Contains(RankKey, table.names[c])
        \/ Contains(RatingKey, table.names[c])
        \/ StartsWith(table.names[c], <<"q">>)})

\* A plausible slip: the course compared with "" before it is stripped.
NonBlankUnstripped(cell) == ToStr(cell) # <<>>

\* tmp["course"].str.strip() and tmp[tmp["course"] != ""]: the row is kept.
NonBlank(cell) == Strip(ToStr(cell)) # <<>>

\* The (ccol, rcol) pairs in the order of the two nested loops.
ColumnPairs(table) ==
    LET cc == CourseCols(table)
        rc == RankCols(table)
    IN  [k \in 1..(Len(cc) * Len(rc)) |->
            [ccol |-> cc[((k - 1) \div Len(rc)) + 1],
             rcol |-> rc[((k - 1) % Len(rc)) + 1]]]

\* The body of the inner loop of Case 2 for one pair: the rows it would
\* return with the scale it uses, or no rows when the pair is skipped.
PairRecords(table, pair) ==
    LET rank_series == Coerce(table.cols[pair.rcol])
        valid == DropNa(rank_series)
        course == table.cols[pair.ccol]
    IN  IF valid = <<>> THEN <<>>
        ELSE IF ~MostlyInRange(valid) THEN <<>>
        ELSE LET scale_max == ScaleMax(valid)
                 bucket == [i \in 1..Len(rank_series) |->
                               categorize_numeric(rank_series[i], scale_max)]
                 kept == AscendingSeq({i \in 1..Len(rank_series) :
                            /\ ~IsNa(course[i])
                            /\ ~IsNa(rank_series[i])
                            /\ NonBlank(course[i])
                            /\ bucket[i] # None})
             IN  [k \in 1..Len(kept) |->
                     [course |-> Strip(ToStr(course[kept[k]])),
                      bucket |-> bucket[kept[k]]]]

\* The pairs of Case 2 whose rows are not empty.
ReturningPairs(table) ==
    LET pairs == ColumnPairs(table)
    IN  {k \in 1..Len(pairs) : PairRecords(table, pairs[k]) # <<>>}

\* The first pair of Case 2 that returns.
FirstPair(table) ==
    LET returning == ReturningPairs(table)
    IN  ColumnPairs(table)[CHOOSE k \in returning : \A j \in returning : k <= j]

\* text_bucket_cols of Case 3, in column order.
TextBucketCols(table) ==
    AscendingSeq({c \in 1..NCols(table) :
        \/ Contains(BeneficialKey, table.names[c])
        \/ Contains(PreferenceKey, table.names[c])
        \/ Contains(RankKey, table.names[c])
        \/ Contains(RatingKey, table.names[c])
        \/ Contains(CourseKey, table.names[c])})

\* "course" in df.columns
HasCourseColumn(table) == \E c \in 1..NCols(table) : table.names[c] = CourseKey

\* The body of the loop of Case 3 for one column: the rows it would return,
\* or no rows when the column is skipped.
TextRecords(table, col) ==
    LET mapped == [i \in 1..NRowsOf(table) |-> categorize_text(table.cols[col][i])]
    IN  IF Cardinality({i \in 1..Len(mapped) : mapped[i] # None}) < 5 THEN <<>>
        ELSE IF ~HasCourseColumn(table) THEN <<>>
        ELSE LET course == table.cols[CHOOSE c \in 1..NCols(table) :
                                          table.names[c] = CourseKey]
                 kept == AscendingSeq({i \in 1..Len(mapped) :
                            /\ ~IsNa(course[i])
                            /\ mapped[i] # None
                            /\ NonBlank(course[i])})
             IN  [k \in 1..Len(kept) |->
                     [course |-> Strip(ToStr(course[kept[k]])),
                      bucket |-> mapped[kept[k]]]]

\* The columns of Case 3 whose rows are not empty.
ReturningTextCols(table) ==
    LET text_bucket_cols == TextBucketCols(table)
    IN  {k \in 1..Len(text_bucket_cols) :
             TextRecords(table, text_bucket_cols[k]) # <<>>}

\* The first column of Case 3 that returns.
FirstTextCol(table) ==
    LET returning == ReturningTextCols(table)
    IN  TextBucketCols(table)[CHOOSE k \in returning : \A j \in returning : k <= j]

\* A plausible slip: the noise floor of Case 3 applied to Case 1.
Case1ReturnsAboveFloor(recs) == Len(recs) >= 5

\* if records: return pd.DataFrame(records)
Case1Returns(recs) == recs # <<>>

\* The tables have NRows rows and two or three columns: a label column
\* named "course" or "program", a value column named "rank" or "q1", and
\* sometimes a third, numeric column named "score" that holds 1, 4, 8, 1, ...
\* A row is one of RowKinds (a course name, a blank or a missing label beside
\* 1, 5, 7.6, 9 or the text "Most"); a table lists its rows in the order of
\* RowKinds.
NRows == 5

Acc == Str(<<"a","c","c">>)
Fin == Str(<<" ","F","i","n"," ">>)
Blank == Str(<<" ">>)
Most == Str(<<"M","o","s","t">>)

RowKinds ==
    << [label |-> Acc, value |-> Num(10)],
       [label |-> Acc, value |-> Num(50)],
       [label |-> Acc, value |-> Num(76)],
       [label |-> Acc, value |-> Num(90)],
       [label |-> Acc, value |-> Most],
       [label |-> Fin, value |-> Num(10)],
       [label |-> Blank, value |-> Num(10)],
       [label |-> Blank, value |-> Most],
       [label |-> NaN, value |-> Num(50)],
       [label |-> NaN, value |-> Most] >>

LabelNames == {CourseKey, ProgramKey}
ValueNames == {RankKey, <<"q","1">>}
ScoreName == <<"s","c","o","r","e">>
ScoreCells == << Num(10), Num(40), Num(80) >>

MakeTable(labelName, valueName, ix, withScore) ==
    LET label == [i \in 1..Len(ix) |-> RowKinds[ix[i]].label]
        value == [i \in 1..Len(ix) |-> RowKinds[ix[i]].value]
        score == [i \in 1..Len(ix) |-> ScoreCells[((i - 1) % 3) + 1]]
    IN  IF withScore
        THEN [names |-> <<labelName, valueName, ScoreName>>,
              cols |-> <<label, value, score>>]
        ELSE [names |-> <<labelName, valueName>>, cols |-> <<label, value>>]

Tables ==
    {MakeTable(ln, vn, ix, ws) :
        ln \in LabelNames, vn \in ValueNames,
        ix \in Ascending(NRows, 1, Len(RowKinds)), ws \in BOOLEAN}

InitDetect ==
    /\ df \in Tables
    /\ pc = "case1"
    /\ numeric_candidates = <<>>
    /\ records = <<>>
    /\ long_form = NotYet
    /\ result = NotYet
    /\ IdleText
    /\ IdleNumeric
    /\ IdleNormalize
    /\ IdleScore

\* Case 1: wide forced-rank/rating columns.
Case1 ==
    /\ pc = "case1"
    /\ LET cands == FilteredCandidates(df, NumericCandidates(df))
           recs == Case1Records(df, cands)
       IN  /\ numeric_candidates' = cands
           /\ records' = recs
           /\ IF Case1Returns(recs)
              THEN result' = Returned(recs) /\ pc' = "returned"
              ELSE result' = result /\ pc' = "case2"
    /\ UNCHANGED <<df, long_form, textVars, numVars, normVars, scoreVars>>

\* Case 2: long form with a course column and a rank/value column.
Case2 ==
    /\ pc = "case2"
    /\ IF ReturningPairs(df) # {}
       THEN LET pair == FirstPair(df)
            IN  /\ long_form' = Returned(
                       [ccol |-> pair.ccol, rcol |-> pair.rcol,
                        scale_max |-> ScaleMax(DropNa(Coerce(df.cols[pair.rcol])))])
                /\ result' = Returned(PairRecords(df, pair))
                /\ pc' = "returned"
       ELSE /\ pc' = "case3"
            /\ UNCHANGED <<long_form, result>>
    /\ UNCHANGED <<df, numeric_candidates, records, textVars, numVars, normVars,
                   scoreVars>>

\* Case 3: bucketed text responses; the ValueError when it returns nothing.
Case3 ==
    /\ pc = "case3"
    /\ IF ReturningTextCols(df) # {}
       THEN /\ result' = Returned(TextRecords(df, FirstTextCol(df)))
            /\ pc' = "returned"
       ELSE /\ pc' = "raised"
            /\ result' = result
    /\ UNCHANGED <<df, numeric_candidates, records, long_form, textVars, numVars,
                   normVars, scoreVars>>

NextDetect == Case1 \/ Case2 \/ Case3

SpecDetect == InitDetect /\ [][NextDetect]_vars

\* The observation lists of the three strategies for the table.
Strategy1 == Case1Records(df, FilteredCandidates(df, NumericCandidates(df)))
Strategy2 ==
    IF ReturningPairs(df) = {} THEN <<>> ELSE PairRecords(df, FirstPair(df))
Strategy3 ==
    IF ReturningTextCols(df) = {} THEN <<>> ELSE TextRecords(df, FirstTextCol(df))

\* C3: find_rank_records returns the observation list of the first of
\* Strategy 1, 2, 3 whose list is not empty, and nothing of another strategy.
C3_FirstStrategyWins ==
    pc = "returned" =>
        result.v = IF Strategy1 # <<>> THEN Strategy1
                   ELSE IF Strategy2 # <<>> THEN Strategy2
                   ELSE Strategy3

\* A table with both the Strategy 1 and the Strategy 2 shape, resolved with
\* the observations of Strategy 1.
C3_Witness ==
    /\ pc = "returned"
    /\ Strategy1 # <<>>
    /\ Strategy2 # <<>>
    /\ \A i \in 1..Len(Strategy2) : \A j \in 1..Len(Strategy1) :
           Strategy2[i].course # Strategy1[j].course
    /\ result.v = Strategy1

\* C5: the ValueError is raised exactly when no strategy yields an
\* observation; a returned list is not empty and each of its observations has
\* a bucket among most, neutral, least and a course that is not blank.
C5_ErrorIffNoObservation ==
    /\ pc = "raised" =>
           Strategy1 = <<>> /\ Strategy2 = <<>> /\ Strategy3 = <<>>
    /\ pc = "returned" =>
           /\ Strategy1 # <<>> \/ Strategy2 # <<>> \/ Strategy3 # <<>>
           /\ result.v # <<>>
           /\ \A i \in 1..Len(result.v) :
                  /\ result.v[i].bucket \in Buckets
                  /\ Strip(result.v[i].course) # <<>>

\* The error raised for a table with a qualifying numeric column whose
\* values no scale buckets and with rows whose course is blank or missing.
C5_Witness ==
    /\ pc = "raised"
    /\ numeric_candidates # <<>>
    /\ \E i \in 1..NRowsOf(df) : IsNa(df.cols[1][i])
    /\ \E i \in 1..NRowsOf(df) : df.cols[1][i] = Blank

\* The maximum of the valid numeric values of a column.
ColumnMax(c) == MaxOf(DropNa(Coerce(df.cols[c])))

\* C10 as stated: the scale of every column of Case 1, and of the returning
\* pair of Case 2, is the maximum of its valid values rounded to the nearest
\* int.
C10_ScaleIsRoundedMax ==
    /\ \A k \in 1..Len(numeric_candidates) :
           numeric_candidates[k].scale_max = Round(ColumnMax(numeric_candidates[k].col))
    /\ IsReturned(long_form) =>
           long_form.v.scale_max = Round(ColumnMax(long_form.v.rcol))

\* C10 amended: the scale is the maximum truncated to an int, and a column of
\* Case 1 whose maximum lies strictly between 7 and 8 contributes no
\* observation.
C10_ScaleIsTruncatedMax ==
    /\ \A k \in 1..Len(numeric_candidates) :
           LET cand == numeric_candidates[k]
           IN  /\ cand.scale_max = Truncate(ColumnMax(cand.col))
               /\ (70 < ColumnMax(cand.col) /\ ColumnMax(cand.col) < 80) =>
                      \A i \in 1..Len(records) :
                          records[i].course # df.names[cand.col]
    /\ IsReturned(long_form) =>
           long_form.v.scale_max = Truncate(ColumnMax(long_form.v.rcol))

\* A column of Case 1 whose maximum is 7.6: its scale is 7, not 8.
C10_Witness ==
    /\ pc # "case1"
    /\ \E k \in 1..Len(numeric_candidates) :
           /\ ColumnMax(numeric_candidates[k].col) = 76
           /\ numeric_candidates[k].scale_max = 7

=============================================================================
